---- MODULE Spec2Model ----
(***************************************************************************)
(* Model of the fleet-management application in src/app.py: the relational *)
(* tables (Empresa, Usuario, Veiculo, Utilizacao, ControleKm, Multa,       *)
(* AppUser) and the request handlers that change them.  One action per     *)
(* POST handler; a handler's early returns are the branches of its action. *)
(***************************************************************************)
EXTENDS Integers, Sequences, FiniteSets, TLC

VARIABLES empresas, usuarios, veiculos, utilizacoes, controles, multas,
          appusers, hoje, flash

db == <<empresas, usuarios, veiculos, utilizacoes, controles, multas, appusers>>
vars == <<empresas, usuarios, veiculos, utilizacoes, controles, multas,
          appusers, hoje, flash>>

(***************************************************************************)
(* Bounds of the model.                                                    *)
(***************************************************************************)
\* Rows per table in the specifications of the registries and of the
\* checkpoints of one utilization.
MaxEmpresas == 2
MaxUsuarios == 1
MaxVeiculosCad == 1
MaxUtilizacoesCad == 1
MaxMultas == 1
\* Rows per table in the specifications of vehicle availability.
MaxVeiculos == 2
MaxUtilizacoes == 2
MaxControles == 2
MaxAppUsers == 3
\* Odometer readings 0..MaxKm, days 0..MaxDia, year-month labels 1..MaxMes.
MaxKm == 1
MaxDia == 2
MaxMes == 2
\* Rows of an imported sheet, and fines in the ledger it is imported into.
MaxLinhas == 2
MaxMultasLote == 3

\* A nullable column that holds no value (data_devolucao, km_devolucao).
NULL == -1

\* A form field that is missing or that int() / strptime() cannot parse.
INVALIDO == -2

\* franquia_km stored when the submitted text is not a string of digits.
FranquiaPadrao == 2000

Max(S) == CHOOSE x \in S : \A y \in S : y <= x

\* The primary key SQLite gives to a new row of a table whose key is
\* "id INTEGER PRIMARY KEY": one more than the greatest key in the table.
NovoId(tab) == IF DOMAIN tab = {} THEN 1 ELSE Max(DOMAIN tab) + 1

\* db.session.add(row) followed by commit.
Inserir(tab, row) ==
    [i \in DOMAIN tab \cup {NovoId(tab)} |->
        IF i \in DOMAIN tab THEN tab[i] ELSE row]

\* db.session.delete(row) followed by commit.
Remover(tab, id) == [i \in DOMAIN tab \ {id} |-> tab[i]]

(***************************************************************************)
(* Plates and month names are character sequences; upper()/lower() act    *)
(* per letter.                                                             *)
(***************************************************************************)
Minusculas ==
    <<"a", "b", "c", "d", "e", "f", "g", "h", "i", "j", "k", "l", "m", "n",
      "o", "p", "q", "r", "s", "t", "u", "v", "w", "x", "y", "z", "ç">>
Maiusculas ==
    <<"A", "B", "C", "D", "E", "F", "G", "H", "I", "J", "K", "L", "M", "N",
      "O", "P", "Q", "R", "S", "T", "U", "V", "W", "X", "Y", "Z", "Ç">>

\* The letter-to-letter tables of upper() and lower().
ParaMaiuscula ==
    [c \in {Minusculas[i] : i \in DOMAIN Minusculas} |->
        Maiusculas[CHOOSE i \in DOMAIN Minusculas : Minusculas[i] = c]]
ParaMinuscula ==
    [c \in {Maiusculas[i] : i \in DOMAIN Maiusculas} |->
        Minusculas[CHOOSE i \in DOMAIN Maiusculas : Maiusculas[i] = c]]

UpperChar(c) == IF c \in DOMAIN ParaMaiuscula THEN ParaMaiuscula[c] ELSE c
LowerChar(c) == IF c \in DOMAIN ParaMinuscula THEN ParaMinuscula[c] ELSE c
Upper(s) == [i \in DOMAIN s |-> UpperChar(s[i])]
Lower(s) == [i \in DOMAIN s |-> LowerChar(s[i])]

\* Veiculo.query.filter(func.lower(Veiculo.placa) == func.lower(placa))
VeiculosComPlaca(placa) ==
    {v \in DOMAIN veiculos : Lower(veiculos[v].placa) = Lower(placa)}

(***************************************************************************)
(* Construction: db.create_all() on an empty database, then                *)
(* ensure_initial_admin().                                                 *)
(***************************************************************************)
ensure_initial_admin ==
    [username |-> "admin", is_admin |-> TRUE, can_edit |-> TRUE,
     can_delete |-> TRUE, can_manage_users |-> TRUE, active |-> TRUE]

Init ==
    /\ empresas = <<>>
    /\ usuarios = <<>>
    /\ veiculos = <<>>
    /\ utilizacoes = <<>>
    /\ controles = <<>>
    /\ multas = <<>>
    /\ appusers = Inserir(<<>>, ensure_initial_admin)
    /\ hoje = 1
    /\ flash = "inicio"

(***************************************************************************)
(* Empresa, Usuario (driver), Veiculo.                                     *)
(***************************************************************************)
cadastro_empresa(nome) ==
    /\ IF nome = ""
       THEN /\ flash' = "empresa_sem_nome"
            /\ UNCHANGED <<db, hoje>>
       ELSE /\ empresas' = Inserir(empresas, [nome |-> nome])
            /\ flash' = "empresa_cadastrada"
            /\ UNCHANGED <<usuarios, veiculos, utilizacoes, controles,
                           multas, appusers, hoje>>

excluir_empresa(id) ==
    IF id \notin DOMAIN empresas
    THEN /\ flash' = "empresa_nao_encontrada"
         /\ UNCHANGED <<db, hoje>>
    ELSE LET tem_veiculos == \E v \in DOMAIN veiculos :
                                 veiculos[v].empresa_id = id
             tem_utilizacoes == \E u \in DOMAIN utilizacoes :
                                    utilizacoes[u].empresa_id = id
             tem_multas == \E m \in DOMAIN multas : multas[m].empresa_id = id
         IN IF tem_veiculos \/ tem_utilizacoes \/ tem_multas
            THEN /\ flash' = "empresa_vinculada"
                 /\ UNCHANGED <<db, hoje>>
            ELSE /\ empresas' = Remover(empresas, id)
                 /\ flash' = "empresa_excluida"
                 /\ UNCHANGED <<usuarios, veiculos, utilizacoes, controles,
                                multas, appusers, hoje>>

cadastro_usuario(nome, setor) ==
    /\ usuarios' = Inserir(usuarios, [nome |-> nome, setor |-> setor])
    /\ flash' = "usuario_cadastrado"
    /\ UNCHANGED <<empresas, veiculos, utilizacoes, controles, multas,
                   appusers, hoje>>

\* excluir_usuario that reports success without db.session.delete.
excluir_usuario_SemDelete(id) ==
    IF id \notin DOMAIN usuarios
    THEN /\ flash' = "usuario_nao_encontrado"
         /\ UNCHANGED <<db, hoje>>
    ELSE IF \/ \E u \in DOMAIN utilizacoes : utilizacoes[u].usuario_id = id
            \/ \E m \in DOMAIN multas : multas[m].usuario_id = id
         THEN /\ flash' = "usuario_vinculado"
              /\ UNCHANGED <<db, hoje>>
         ELSE /\ flash' = "usuario_excluido"
              /\ UNCHANGED <<db, hoje>>

excluir_usuario(id) ==
    IF id \notin DOMAIN usuarios
    THEN /\ flash' = "usuario_nao_encontrado"
         /\ UNCHANGED <<db, hoje>>
    ELSE IF \/ \E u \in DOMAIN utilizacoes : utilizacoes[u].usuario_id = id
            \/ \E m \in DOMAIN multas : multas[m].usuario_id = id
         THEN /\ flash' = "usuario_vinculado"
              /\ UNCHANGED <<db, hoje>>
         ELSE /\ usuarios' = Remover(usuarios, id)
              /\ flash' = "usuario_excluido"
              /\ UNCHANGED <<empresas, veiculos, utilizacoes, controles,
                             multas, appusers, hoje>>

\* cadastro_veiculo that stores the plate as typed and looks for an existing
\* vehicle with exactly that plate.
cadastro_veiculo_SemCaixa(placa_form, empresa_id, franquia_km) ==
    /\ LET franquia == IF franquia_km = INVALIDO
                       THEN FranquiaPadrao
                       ELSE franquia_km
       IN IF \E v \in DOMAIN veiculos : veiculos[v].placa = placa_form
          THEN /\ flash' = "placa_existente"
               /\ UNCHANGED <<db, hoje>>
          ELSE /\ veiculos' = Inserir(veiculos,
                       [placa |-> placa_form, franquia_km |-> franquia,
                        empresa_id |-> empresa_id, disponivel |-> TRUE])
               /\ flash' = "veiculo_cadastrado"
               /\ UNCHANGED <<empresas, usuarios, utilizacoes, controles,
                              multas, appusers, hoje>>

cadastro_veiculo(placa_form, empresa_id, franquia_km) ==
    /\ LET placa == Upper(placa_form)
           franquia == IF franquia_km = INVALIDO
                       THEN FranquiaPadrao
                       ELSE franquia_km
       IN IF VeiculosComPlaca(placa) # {}
          THEN /\ flash' = "placa_existente"
               /\ UNCHANGED <<db, hoje>>
          ELSE /\ veiculos' = Inserir(veiculos,
                       [placa |-> placa, franquia_km |-> franquia,
                        empresa_id |-> empresa_id, disponivel |-> TRUE])
               /\ flash' = "veiculo_cadastrado"
               /\ UNCHANGED <<empresas, usuarios, utilizacoes, controles,
                              multas, appusers, hoje>>

\* excluir_veiculo that looks for utilizations but not for fines.
excluir_veiculo_SemMultas(id) ==
    IF id \notin DOMAIN veiculos
    THEN /\ flash' = "veiculo_nao_encontrado"
         /\ UNCHANGED <<db, hoje>>
    ELSE IF \E u \in DOMAIN utilizacoes : utilizacoes[u].veiculo_id = id
         THEN /\ flash' = "veiculo_vinculado"
              /\ UNCHANGED <<db, hoje>>
         ELSE /\ veiculos' = Remover(veiculos, id)
              /\ flash' = "veiculo_excluido"
              /\ UNCHANGED <<empresas, usuarios, utilizacoes, controles,
                             multas, appusers, hoje>>

excluir_veiculo(id) ==
    IF id \notin DOMAIN veiculos
    THEN /\ flash' = "veiculo_nao_encontrado"
         /\ UNCHANGED <<db, hoje>>
    ELSE LET tem_utilizacoes == \E u \in DOMAIN utilizacoes :
                                    utilizacoes[u].veiculo_id = id
             tem_multas == \E m \in DOMAIN multas : multas[m].veiculo_id = id
         IN IF tem_utilizacoes \/ tem_multas
            THEN /\ flash' = "veiculo_vinculado"
                 /\ UNCHANGED <<db, hoje>>
            ELSE /\ veiculos' = Remover(veiculos, id)
                 /\ flash' = "veiculo_excluido"
                 /\ UNCHANGED <<empresas, usuarios, utilizacoes, controles,
                                multas, appusers, hoje>>

(***************************************************************************)
(* Utilizacao: assignment of a vehicle to a driver.                        *)
(***************************************************************************)
\* veiculo = db.session.get(Veiculo, id); if veiculo: veiculo.disponivel = b
MarcarDisponivel(tab, id, b) ==
    IF id \in DOMAIN tab
    THEN [tab EXCEPT ![id].disponivel = b]
    ELSE tab

\* cadastro_utilizacao without "veiculo.disponivel = False".
cadastro_utilizacao_SemMarcar(usuario_id, veiculo_id, empresa_id, data_entrega, km_entrega) ==
    IF data_entrega = INVALIDO \/ km_entrega = INVALIDO
    THEN \* strptime() or int() raises before anything is added
         /\ flash' = "erro_500"
         /\ UNCHANGED <<db, hoje>>
    ELSE /\ utilizacoes' = Inserir(utilizacoes,
                [usuario_id |-> usuario_id, veiculo_id |-> veiculo_id,
                 empresa_id |-> empresa_id, data_entrega |-> data_entrega,
                 km_entrega |-> km_entrega, data_devolucao |-> NULL,
                 km_devolucao |-> NULL])
         /\ flash' = "utilizacao_registrada"
         /\ UNCHANGED <<empresas, usuarios, veiculos, controles, multas, appusers,
                        hoje>>

\* cadastro_utilizacao that refuses a vehicle that is not available.
cadastro_utilizacao_SoDisponivel(usuario_id, veiculo_id, empresa_id, data_entrega, km_entrega) ==
    IF data_entrega = INVALIDO \/ km_entrega = INVALIDO
    THEN /\ flash' = "erro_500"
         /\ UNCHANGED <<db, hoje>>
    ELSE IF veiculo_id \in DOMAIN veiculos /\ ~veiculos[veiculo_id].disponivel
    THEN /\ flash' = "veiculo_indisponivel"
         /\ UNCHANGED <<db, hoje>>
    ELSE /\ utilizacoes' = Inserir(utilizacoes,
                [usuario_id |-> usuario_id, veiculo_id |-> veiculo_id,
                 empresa_id |-> empresa_id, data_entrega |-> data_entrega,
                 km_entrega |-> km_entrega, data_devolucao |-> NULL,
                 km_devolucao |-> NULL])
         /\ veiculos' = MarcarDisponivel(veiculos, veiculo_id, FALSE)
         /\ flash' = "utilizacao_registrada"
         /\ UNCHANGED <<empresas, usuarios, controles, multas, appusers, hoje>>

cadastro_utilizacao(usuario_id, veiculo_id, empresa_id, data_entrega, km_entrega) ==
    IF data_entrega = INVALIDO \/ km_entrega = INVALIDO
    THEN \* strptime() or int() raises before anything is added
         /\ flash' = "erro_500"
         /\ UNCHANGED <<db, hoje>>
    ELSE /\ utilizacoes' = Inserir(utilizacoes,
                [usuario_id |-> usuario_id, veiculo_id |-> veiculo_id,
                 empresa_id |-> empresa_id, data_entrega |-> data_entrega,
                 km_entrega |-> km_entrega, data_devolucao |-> NULL,
                 km_devolucao |-> NULL])
         /\ veiculos' = MarcarDisponivel(veiculos, veiculo_id, FALSE)
         /\ flash' = "utilizacao_registrada"
         /\ UNCHANGED <<empresas, usuarios, controles, multas, appusers, hoje>>

\* ControleKm.query.filter_by(utilizacao_id=utilizacao_id)
RegistrosKm(utilizacao_id) ==
    {c \in DOMAIN controles : controles[c].utilizacao_id = utilizacao_id}

\* The checkpoints created last, instead of those with the greatest label.
Ultimos_PorCriacao(regs) == {c \in regs : \A d \in regs : d <= c}

\* ... .order_by(ControleKm.mes_ano.desc()): the rows that can come first.
\* Rows with the same greatest label are in no defined order.
Ultimos(regs) ==
    {c \in regs : \A d \in regs : controles[d].mes_ano <= controles[c].mes_ano}

\* km_inicial_proximo taken from the checkpoint created last.
km_inicial_proximo_PorCriacao(utilizacao_id) ==
    IF RegistrosKm(utilizacao_id) # {}
    THEN {controles[c].km_final_mes :
             c \in Ultimos_PorCriacao(RegistrosKm(utilizacao_id))}
    ELSE {utilizacoes[utilizacao_id].km_entrega}

\* km_inicial_proximo: the start reading the checkpoint form suggests.
km_inicial_proximo(utilizacao_id) ==
    IF RegistrosKm(utilizacao_id) # {}
    THEN {controles[c].km_final_mes : c \in Ultimos(RegistrosKm(utilizacao_id))}
    ELSE {utilizacoes[utilizacao_id].km_entrega}

controle_km_mensal(utilizacao_id, mes_ano, km_inicial_mes, km_final_mes) ==
    /\ IF \/ /\ utilizacao_id \notin DOMAIN utilizacoes
                /\ RegistrosKm(utilizacao_id) = {}
             \/ km_final_mes = INVALIDO
             \/ km_inicial_mes = INVALIDO
       THEN \* utilizacao is None and has no km_entrega, or int() raises
            /\ flash' = "erro_500"
            /\ UNCHANGED <<db, hoje>>
       ELSE /\ controles' = Inserir(controles,
                    [utilizacao_id |-> utilizacao_id, mes_ano |-> mes_ano,
                     km_inicial_mes |-> km_inicial_mes,
                     km_final_mes |-> km_final_mes])
            /\ flash' = "km_mensal_salvo"
            /\ UNCHANGED <<empresas, usuarios, veiculos, utilizacoes, multas,
                           appusers, hoje>>

excluir_controle_km(id) ==
    IF id \notin DOMAIN controles
    THEN /\ flash' = "erro_500"
         /\ UNCHANGED <<db, hoje>>
    ELSE /\ controles' = Remover(controles, id)
         /\ flash' = "km_mensal_excluido"
         /\ UNCHANGED <<empresas, usuarios, veiculos, utilizacoes, multas,
                        appusers, hoje>>

\* ControleKm.query.join(Utilizacao).filter(Utilizacao.id == id): the join
\* keeps only checkpoints whose Utilizacao row exists.
RegistrosKmJoin(id) ==
    IF id \in DOMAIN utilizacoes THEN RegistrosKm(id) ELSE {}

\* km_minimo of devolucao: the values the query can yield.
km_minimo(id) ==
    IF RegistrosKmJoin(id) # {}
    THEN {controles[c].km_final_mes : c \in Ultimos(RegistrosKmJoin(id))}
    ELSE {utilizacoes[id].km_entrega}

\* devolucao without the check of the return date against date.today().
devolucao_SemData(id, data_devolucao, km_devolucao) ==
    IF id \notin DOMAIN utilizacoes \/ km_devolucao = INVALIDO
    THEN /\ flash' = "erro_500"
         /\ UNCHANGED <<db, hoje>>
    ELSE \E minimo \in km_minimo(id) :
           IF km_devolucao < minimo
           THEN /\ flash' = "km_devolucao_menor"
                /\ UNCHANGED <<db, hoje>>
           ELSE IF data_devolucao = INVALIDO
           THEN /\ flash' = "erro_500"
                /\ UNCHANGED <<db, hoje>>
           ELSE /\ utilizacoes' =
                      [utilizacoes EXCEPT
                          ![id].data_devolucao = data_devolucao,
                          ![id].km_devolucao = km_devolucao]
                /\ veiculos' = MarcarDisponivel(veiculos,
                                   utilizacoes[id].veiculo_id, TRUE)
                /\ flash' = "devolucao_registrada"
                /\ UNCHANGED <<empresas, usuarios, controles, multas,
                               appusers, hoje>>

\* devolucao that stores the return date but not the return odometer.
devolucao_SemKm(id, data_devolucao, km_devolucao) ==
    IF id \notin DOMAIN utilizacoes \/ km_devolucao = INVALIDO
    THEN /\ flash' = "erro_500"
         /\ UNCHANGED <<db, hoje>>
    ELSE \E minimo \in km_minimo(id) :
           IF km_devolucao < minimo
           THEN /\ flash' = "km_devolucao_menor"
                /\ UNCHANGED <<db, hoje>>
           ELSE IF data_devolucao = INVALIDO
           THEN \* strptime() raises
                /\ flash' = "erro_500"
                /\ UNCHANGED <<db, hoje>>
           ELSE IF data_devolucao > hoje
           THEN /\ flash' = "data_devolucao_futura"
                /\ UNCHANGED <<db, hoje>>
           ELSE /\ utilizacoes' =
                      [utilizacoes EXCEPT
                          ![id].data_devolucao = data_devolucao]
                /\ veiculos' = MarcarDisponivel(veiculos,
                                   utilizacoes[id].veiculo_id, TRUE)
                /\ flash' = "devolucao_registrada"
                /\ UNCHANGED <<empresas, usuarios, controles, multas,
                               appusers, hoje>>

devolucao(id, data_devolucao, km_devolucao) ==
    IF id \notin DOMAIN utilizacoes \/ km_devolucao = INVALIDO
    THEN \* utilizacao is None and has no km_entrega, or int() raises
         /\ flash' = "erro_500"
         /\ UNCHANGED <<db, hoje>>
    ELSE \E minimo \in km_minimo(id) :
           IF km_devolucao < minimo
           THEN /\ flash' = "km_devolucao_menor"
                /\ UNCHANGED <<db, hoje>>
           ELSE IF data_devolucao = INVALIDO
           THEN \* strptime() raises
                /\ flash' = "erro_500"
                /\ UNCHANGED <<db, hoje>>
           ELSE IF data_devolucao > hoje
           THEN /\ flash' = "data_devolucao_futura"
                /\ UNCHANGED <<db, hoje>>
           ELSE /\ utilizacoes' =
                      [utilizacoes EXCEPT
                          ![id].data_devolucao = data_devolucao,
                          ![id].km_devolucao = km_devolucao]
                /\ veiculos' = MarcarDisponivel(veiculos,
                                   utilizacoes[id].veiculo_id, TRUE)
                /\ flash' = "devolucao_registrada"
                /\ UNCHANGED <<empresas, usuarios, controles, multas,
                               appusers, hoje>>

excluir_utilizacao(id) ==
    IF id \notin DOMAIN utilizacoes
    THEN \* utilizacao is None and has no veiculo_id
         /\ flash' = "erro_500"
         /\ UNCHANGED <<db, hoje>>
    ELSE /\ veiculos' = MarcarDisponivel(veiculos,
                            utilizacoes[id].veiculo_id, TRUE)
         /\ utilizacoes' = Remover(utilizacoes, id)
         /\ flash' = "utilizacao_excluida"
         /\ UNCHANGED <<empresas, usuarios, controles, multas, appusers,
                        hoje>>

\* editar_utilizacao that frees the previous vehicle after taking the new
\* one instead of before.
editar_utilizacao_OrdemTrocada(id, usuario_id, veiculo_id, empresa_id, data_entrega, km_entrega) ==
    IF \/ id \notin DOMAIN utilizacoes
       \/ data_entrega = INVALIDO
       \/ km_entrega = INVALIDO
    THEN /\ flash' = "erro_500"
         /\ UNCHANGED <<db, hoje>>
    ELSE /\ veiculos' =
               MarcarDisponivel(
                   MarcarDisponivel(veiculos, veiculo_id, FALSE),
                   utilizacoes[id].veiculo_id, TRUE)
         /\ utilizacoes' =
               [utilizacoes EXCEPT
                   ![id].usuario_id = usuario_id,
                   ![id].veiculo_id = veiculo_id,
                   ![id].empresa_id = empresa_id,
                   ![id].data_entrega = data_entrega,
                   ![id].km_entrega = km_entrega]
         /\ flash' = "utilizacao_atualizada"
         /\ UNCHANGED <<empresas, usuarios, controles, multas, appusers,
                        hoje>>

editar_utilizacao(id, usuario_id, veiculo_id, empresa_id, data_entrega, km_entrega) ==
    IF \/ id \notin DOMAIN utilizacoes
       \/ data_entrega = INVALIDO
       \/ km_entrega = INVALIDO
    THEN \* utilizacao is None and has no veiculo_id; or strptime() / int()
         \* raises after "veiculo_antigo.disponivel = True" and before any
         \* commit, and the session is discarded with the request.
         /\ flash' = "erro_500"
         /\ UNCHANGED <<db, hoje>>
    ELSE /\ veiculos' =
               MarcarDisponivel(
                   MarcarDisponivel(veiculos, utilizacoes[id].veiculo_id,
                                    TRUE),
                   veiculo_id, FALSE)
         /\ utilizacoes' =
               [utilizacoes EXCEPT
                   ![id].usuario_id = usuario_id,
                   ![id].veiculo_id = veiculo_id,
                   ![id].empresa_id = empresa_id,
                   ![id].data_entrega = data_entrega,
                   ![id].km_entrega = km_entrega]
         /\ flash' = "utilizacao_atualizada"
         /\ UNCHANGED <<empresas, usuarios, controles, multas, appusers,
                        hoje>>

(***************************************************************************)
(* Derived quantities of Utilizacao and ControleKm.                        *)
(***************************************************************************)
\* Utilizacao.km_utilizado
km_utilizado(u) ==
    IF utilizacoes[u].km_devolucao # NULL /\ utilizacoes[u].km_entrega # NULL
    THEN utilizacoes[u].km_devolucao - utilizacoes[u].km_entrega
    ELSE 0

\* Utilizacao.excedente without max(0, ...).
excedente_SemMax(u) ==
    IF utilizacoes[u].km_devolucao # NULL /\ utilizacoes[u].km_entrega # NULL
    THEN km_utilizado(u) - veiculos[utilizacoes[u].veiculo_id].franquia_km
    ELSE 0

\* Utilizacao.excedente
excedente(u) ==
    IF utilizacoes[u].km_devolucao # NULL /\ utilizacoes[u].km_entrega # NULL
    THEN LET franquia == veiculos[utilizacoes[u].veiculo_id].franquia_km
         IN Max({0, km_utilizado(u) - franquia})
    ELSE 0

\* ControleKm.km_utilizado_mes
km_utilizado_mes(c) == controles[c].km_final_mes - controles[c].km_inicial_mes

\* ControleKm.excedente_mes
excedente_mes(c) ==
    LET franquia ==
            veiculos[utilizacoes[controles[c].utilizacao_id].veiculo_id]
                .franquia_km
    IN Max({0, km_utilizado_mes(c) - franquia})

(***************************************************************************)
(* Vehicle availability: registering vehicles and creating, returning,     *)
(* editing and deleting utilizations.                                      *)
(***************************************************************************)
Kms == 0..MaxKm
Dias == 0..MaxDia
Meses == 1..MaxMes

\* The plate typed for the n-th vehicle.
PlacaDe(n) == [i \in 1..n |-> "a"]

NextFrota ==
    \/ /\ NovoId(veiculos) <= MaxVeiculos
       /\ cadastro_veiculo(PlacaDe(NovoId(veiculos)), 1, 1)
    \/ /\ NovoId(utilizacoes) <= MaxUtilizacoes
       /\ \E v \in DOMAIN veiculos : cadastro_utilizacao(1, v, 1, 1, 0)
    \/ \E u \in 1..MaxUtilizacoes : devolucao(u, hoje, 0)
    \/ \E u \in 1..MaxUtilizacoes : excluir_utilizacao(u)
    \/ \E u \in 1..MaxUtilizacoes, v \in DOMAIN veiculos :
           editar_utilizacao(u, 1, v, 1, 1, 0)

SpecFrota == Init /\ [][NextFrota]_vars

\* The open utilizations (no return date) that reference vehicle v.
Abertas(v) ==
    {u \in DOMAIN utilizacoes :
        /\ utilizacoes[u].veiculo_id = v
        /\ utilizacoes[u].data_devolucao = NULL}

\* C1: for every vehicle, disponivel is false if and only if at least one
\* utilization with no return date references the vehicle.
C1_DisponivelSseSemAberta ==
    \A v \in DOMAIN veiculos : (~veiculos[v].disponivel) <=> (Abertas(v) # {})

\* The effect C5 states for a creation that targets the existing vehicle v.
C5_Efeito(v) ==
    LET n == NovoId(utilizacoes)
    IN /\ DOMAIN utilizacoes' = DOMAIN utilizacoes \cup {n}
       /\ n \notin DOMAIN utilizacoes
       /\ utilizacoes'[n].veiculo_id = v
       /\ utilizacoes'[n].data_devolucao = NULL
       /\ utilizacoes'[n].km_devolucao = NULL
       /\ \A u \in DOMAIN utilizacoes : utilizacoes'[u] = utilizacoes[u]
       /\ DOMAIN veiculos' = DOMAIN veiculos
       /\ ~veiculos'[v].disponivel
       /\ \A w \in DOMAIN veiculos \ {v} : veiculos'[w] = veiculos[w]

\* C5: creating a utilization for an existing vehicle v adds exactly one open
\* utilization that references v and sets v.disponivel to false; every
\* existing utilization and every other vehicle is unchanged.
C5_CriarUtilizacao ==
    [][\A v \in DOMAIN veiculos :
          cadastro_utilizacao(1, v, 1, 1, 0) => C5_Efeito(v)]_vars

\* C5 witness: a second utilization has just been created while two vehicles
\* exist, one of them still available.
C5_Witness ==
    /\ flash = "utilizacao_registrada"
    /\ Cardinality(DOMAIN utilizacoes) = 2
    /\ \E v, w \in DOMAIN veiculos :
          /\ ~veiculos[v].disponivel
          /\ veiculos[w].disponivel
          /\ Abertas(v) # {}

\* C6: deleting a utilization leaves its vehicle with disponivel true;
\* editing a utilization from vehicle v1 to vehicle v2 leaves v1 available and
\* v2 unavailable when they differ, and the vehicle unavailable when v1 = v2.
C6_ExcluirEditarDisponivel ==
    [][/\ \A u \in DOMAIN utilizacoes :
            (utilizacoes[u].veiculo_id \in DOMAIN veiculos /\ excluir_utilizacao(u))
                => veiculos'[utilizacoes[u].veiculo_id].disponivel
       /\ \A u \in DOMAIN utilizacoes, v2 \in DOMAIN veiculos :
            LET v1 == utilizacoes[u].veiculo_id
            IN (v1 \in DOMAIN veiculos /\ editar_utilizacao(u, 1, v2, 1, 1, 0))
                  => /\ v1 # v2 => (veiculos'[v1].disponivel
                                      /\ ~veiculos'[v2].disponivel)
                     /\ v1 = v2 => ~veiculos'[v1].disponivel]_vars

\* C6 witness: a utilization has just been edited and one vehicle is
\* available while another, referenced by a utilization, is not.
C6_Witness ==
    /\ flash = "utilizacao_atualizada"
    /\ \E v1, v2 \in DOMAIN veiculos :
          /\ v1 # v2
          /\ veiculos[v1].disponivel
          /\ ~veiculos[v2].disponivel
          /\ \E u \in DOMAIN utilizacoes : utilizacoes[u].veiculo_id = v2

(***************************************************************************)
(* Recording a return: one vehicle, its utilizations and their monthly     *)
(* checkpoints, which carry the delivery reading or the greatest reading.  *)
(***************************************************************************)
NextDevolucao ==
    \/ /\ DOMAIN veiculos = {}
       /\ cadastro_veiculo(PlacaDe(NovoId(veiculos)), 1, 1)
    \/ /\ NovoId(utilizacoes) <= MaxUtilizacoesCad
       /\ \E v \in DOMAIN veiculos : cadastro_utilizacao(1, v, 1, 1, 0)
    \/ /\ NovoId(controles) <= MaxControles
       /\ \E m \in Meses, k \in {0, MaxKm} : controle_km_mensal(1, m, 0, k)
    \/ \E u \in 1..MaxUtilizacoesCad, d \in Dias, k \in Kms :
           devolucao(u, d, k)

SpecDevolucao == Init /\ [][NextDevolucao]_vars

\* The minimum of C2: km_final_mes of the checkpoints of u with the greatest
\* mes_ano label, or km_entrega when u has no checkpoint.
C2_Minimo(u) ==
    LET cs == {c \in DOMAIN controles : controles[c].utilizacao_id = u}
    IN IF cs = {}
       THEN {utilizacoes[u].km_entrega}
       ELSE {controles[c].km_final_mes :
                c \in {x \in cs : \A y \in cs :
                          controles[y].mes_ano <= controles[x].mes_ano}}

C3_DataFuturaRejeitada ==
    [][/\ \A u \in DOMAIN utilizacoes, d \in Dias, k \in Kms :
            (d > hoje /\ devolucao(u, d, k)) => UNCHANGED db
       /\ \A u \in DOMAIN utilizacoes' :
            (u \notin DOMAIN utilizacoes
               \/ utilizacoes'[u].data_devolucao # utilizacoes[u].data_devolucao)
                => utilizacoes'[u].data_devolucao <= hoje]_vars

\* C3 witness: a return has just been rejected for its date while the
\* utilization holds a return date, earlier than the current date, stored by
\* a previous return.
C3_Witness ==
    /\ flash = "data_devolucao_futura"
    /\ \E u \in DOMAIN utilizacoes :
          /\ utilizacoes[u].data_devolucao # NULL
          /\ utilizacoes[u].data_devolucao < hoje

(***************************************************************************)
(* Returns among several vehicles: the first utilization has checkpoints.   *)
(***************************************************************************)
NextRetorno ==
    \/ /\ NovoId(veiculos) <= MaxVeiculos
       /\ cadastro_veiculo(PlacaDe(NovoId(veiculos)), 1, 1)
    \/ /\ NovoId(utilizacoes) <= MaxUtilizacoes
       /\ NovoId(utilizacoes) \in DOMAIN veiculos
       /\ cadastro_utilizacao(1, NovoId(utilizacoes), 1, 1, 0)
    \/ /\ NovoId(controles) <= MaxControles
       /\ controle_km_mensal(1, 1, 0, MaxKm)
    \/ \E u \in 1..MaxUtilizacoes, d \in Dias, k \in Kms : devolucao(u, d, k)

SpecRetorno == Init /\ [][NextRetorno]_vars

\* C4: a devolucao POST for utilization u that passes both checks stores the
\* submitted date and odometer on u and sets disponivel to true on u's
\* vehicle; no other utilization and no other vehicle changes.
C4_DevolucaoAceita ==
    [][\A u \in DOMAIN utilizacoes, d \in Dias, k \in Kms :
          (d <= hoje /\ (\A m \in C2_Minimo(u) : k >= m) /\ devolucao(u, d, k))
              => LET v == utilizacoes[u].veiculo_id
                 IN /\ DOMAIN utilizacoes' = DOMAIN utilizacoes
                    /\ utilizacoes'[u].data_devolucao = d
                    /\ utilizacoes'[u].km_devolucao = k
                    /\ \A w \in DOMAIN utilizacoes \ {u} :
                          utilizacoes'[w] = utilizacoes[w]
                    /\ DOMAIN veiculos' = DOMAIN veiculos
                    /\ v \in DOMAIN veiculos => veiculos'[v].disponivel
                    /\ \A w \in DOMAIN veiculos \ {v} :
                          veiculos'[w] = veiculos[w]]_vars

\* C4 witness: a return has just been recorded with an odometer above the
\* delivery reading, its vehicle is available, and another vehicle is still
\* held by an open utilization.
C4_Witness ==
    /\ flash = "devolucao_registrada"
    /\ \E u, w \in DOMAIN utilizacoes :
          /\ utilizacoes[u].data_devolucao # NULL
          /\ utilizacoes[u].km_devolucao > utilizacoes[u].km_entrega
          /\ RegistrosKm(u) # {}
          /\ RegistrosKm(w) = {}
          /\ veiculos[utilizacoes[u].veiculo_id].disponivel
          /\ utilizacoes[w].data_devolucao = NULL
          /\ ~veiculos[utilizacoes[w].veiculo_id].disponivel

(***************************************************************************)
(* Multa: single-row registration and deletion.                            *)
(***************************************************************************)
\* The keys of the table of mes_para_numero, in the order of their numbers.
NomesMeses ==
    <<<<"J", "A", "N", "E", "I", "R", "O">>,
      <<"F", "E", "V", "E", "R", "E", "I", "R", "O">>,
      <<"M", "A", "R", "Ç", "O">>,
      <<"A", "B", "R", "I", "L">>,
      <<"M", "A", "I", "O">>,
      <<"J", "U", "N", "H", "O">>,
      <<"J", "U", "L", "H", "O">>,
      <<"A", "G", "O", "S", "T", "O">>,
      <<"S", "E", "T", "E", "M", "B", "R", "O">>,
      <<"O", "U", "T", "U", "B", "R", "O">>,
      <<"N", "O", "V", "E", "M", "B", "R", "O">>,
      <<"D", "E", "Z", "E", "M", "B", "R", "O">>>>

\* The characters str.strip() removes.
Espacos == {" ", "\t", "\n"}

\* str.strip(): the text without its leading and trailing whitespace.
Strip(s) ==
    LET cheios == {i \in DOMAIN s : s[i] \notin Espacos}
    IN IF cheios = {}
       THEN <<>>
       ELSE SubSeq(s, CHOOSE i \in cheios : \A k \in cheios : i <= k,
                      CHOOSE i \in cheios : \A k \in cheios : k <= i)

\* mes_str.upper() without the strip().
UpperStrip_SemStrip(mes_str) == Upper(mes_str)

\* mes_str.upper().strip()
UpperStrip(mes_str) == Strip(Upper(mes_str))

\* mes_para_numero: the number of the month, None for any other text.
mes_para_numero(mes_str) ==
    LET nome == UpperStrip(mes_str)
        nums == {i \in DOMAIN NomesMeses : NomesMeses[i] = nome}
    IN IF nums = {} THEN NULL ELSE CHOOSE i \in nums : TRUE

\* datetime.now().year, in the calendar of the model.
AnoAtual == 1

\* get_mes_ano_para_db: the label "<ano>-<MM>", kept as the number
\* ano * 100 + MM, or None when the name is no month.
get_mes_ano_para_db(mes_nome, ano) ==
    LET a == IF ano = NULL THEN AnoAtual ELSE ano
        mes_num == mes_para_numero(mes_nome)
    IN IF mes_num # NULL THEN a * 100 + mes_num ELSE NULL

\* A form field that was not submitted (request.form.get gives None).
AUSENTE == <<"<None>">>

\* The month names the forms and the sheets of this model submit.
Janeiro == <<"J", "a", "n", "e", "i", "r", "o">>
Foo == <<"F", "o", "o">>

\* cadastro_multa that does not look the company up.
cadastro_multa_SemEmpresa(placa, usuario_id, empresa_id, mes_referencia_nome, data_infracao, infracao, valido) ==
    /\ IF \/ placa = <<>>
          \/ VeiculosComPlaca(placa) = {}
          \/ usuario_id \notin DOMAIN usuarios
          \/ mes_referencia_nome = AUSENTE
          \/ data_infracao = INVALIDO
          \/ ~valido
       THEN /\ flash' = "erro_ao_registrar_multa"
            /\ UNCHANGED <<db, hoje>>
       ELSE \E veiculo \in VeiculosComPlaca(placa) :
              /\ multas' = Inserir(multas,
                     [usuario_id |-> usuario_id, veiculo_id |-> veiculo,
                      empresa_id |-> empresa_id,
                      centro_custo |-> usuarios[usuario_id].setor,
                      placa |-> placa,
                      mes_referencia |->
                          get_mes_ano_para_db(mes_referencia_nome, NULL),
                      data_infracao |-> data_infracao,
                      infracao |-> infracao])
              /\ flash' = "multa_registrada"
              /\ UNCHANGED <<empresas, usuarios, veiculos, utilizacoes,
                             controles, appusers, hoje>>

\* valido: the remaining form fields (hora_infracao, valor_termo_desc)
\* parse; otherwise strptime or float raises ValueError.  A missing month
\* name makes mes_para_numero raise; an unknown one is stored as None.
cadastro_multa(placa, usuario_id, empresa_id, mes_referencia_nome, data_infracao, infracao, valido) ==
    /\ IF \/ placa = <<>>
          \/ VeiculosComPlaca(placa) = {}
          \/ usuario_id \notin DOMAIN usuarios
          \/ empresa_id \notin DOMAIN empresas
          \/ mes_referencia_nome = AUSENTE
          \/ data_infracao = INVALIDO
          \/ ~valido
       THEN /\ flash' = "erro_ao_registrar_multa"
            /\ UNCHANGED <<db, hoje>>
       ELSE \E veiculo \in VeiculosComPlaca(placa) :
              /\ multas' = Inserir(multas,
                     [usuario_id |-> usuario_id, veiculo_id |-> veiculo,
                      empresa_id |-> empresa_id,
                      centro_custo |-> usuarios[usuario_id].setor,
                      placa |-> placa,
                      mes_referencia |->
                          get_mes_ano_para_db(mes_referencia_nome, NULL),
                      data_infracao |-> data_infracao,
                      infracao |-> infracao])
              /\ flash' = "multa_registrada"
              /\ UNCHANGED <<empresas, usuarios, veiculos, utilizacoes,
                             controles, appusers, hoje>>

excluir_multa(id) ==
    IF id \notin DOMAIN multas
    THEN /\ flash' = "multa_nao_encontrada"
         /\ UNCHANGED <<db, hoje>>
    ELSE /\ multas' = Remover(multas, id)
         /\ flash' = "multa_excluida"
         /\ UNCHANGED <<empresas, usuarios, veiculos, utilizacoes, controles,
                        appusers, hoje>>

(***************************************************************************)
(* Multa: batch import.  A row of the sheet is a record of its cells; erro *)
(* says that reading or converting one of them raises.                     *)
(***************************************************************************)
\* Multa.query.filter(...).first() on the ledger as it was when the request
\* began, as if the session were not flushed.
Duplicada_SemFlush(tab, row) ==
    \E m \in DOMAIN multas :
        /\ multas[m].placa = row.placa
        /\ multas[m].data_infracao = row.data_infracao
        /\ multas[m].infracao = row.infracao

\* Multa.query.filter(placa ==, data_infracao ==, infracao ==).first() on the
\* ledger tab, which holds the rows added earlier in the batch: the query
\* flushes the session before it runs.
Duplicada(tab, row) ==
    \E m \in DOMAIN tab :
        /\ tab[m].placa = row.placa
        /\ tab[m].data_infracao = row.data_infracao
        /\ tab[m].infracao = row.infracao

\* func.lower on the names the requests of this model use.
LowerNome(nome) ==
    IF nome \in {"Ana", "ANA"} THEN "ana"
    ELSE IF nome \in {"Acme", "ACME"} THEN "acme"
    ELSE nome

\* Usuario.query.filter(func.lower(Usuario.nome) == func.lower(nome))
UsuariosComNome(nome) ==
    {c \in DOMAIN usuarios : LowerNome(usuarios[c].nome) = LowerNome(nome)}

\* Empresa.query.filter(func.lower(Empresa.nome) == func.lower(nome))
EmpresasComNome(nome) ==
    {e \in DOMAIN empresas : LowerNome(empresas[e].nome) = LowerNome(nome)}

\* The month label of a row from the words of its cell (partes).
MesDaLinha(partes) ==
    IF Len(partes) >= 2
    THEN get_mes_ano_para_db(partes[1], partes[Len(partes)])
    ELSE IF Len(partes) = 1
    THEN get_mes_ano_para_db(partes[1], NULL)
    ELSE NULL

\* The body of the loop for one row: the ledgers it can leave.  .first()
\* picks any of the rows that match a name.
ProcessarLinha(tab, row) ==
    IF row.erro
    THEN {tab}
    ELSE IF Duplicada(tab, row)
    THEN {tab}
    ELSE IF \/ UsuariosComNome(row.condutor) = {}
            \/ VeiculosComPlaca(row.placa) = {}
            \/ EmpresasComNome(row.empresa) = {}
    THEN {tab}
    ELSE {Inserir(tab,
              [usuario_id |-> c, veiculo_id |-> v, empresa_id |-> e,
               centro_custo |-> row.centro_custo, placa |-> row.placa,
               mes_referencia |-> MesDaLinha(row.mes_referencia),
               data_infracao |-> row.data_infracao,
               infracao |-> row.infracao]) :
           c \in UsuariosComNome(row.condutor),
           v \in VeiculosComPlaca(row.placa),
           e \in EmpresasComNome(row.empresa)}

\* The loop that gives up the remaining rows at the first row that fails.
RECURSIVE ProcessarLinhas_Interrompe(_, _)
ProcessarLinhas_Interrompe(tab, lote) ==
    IF lote = <<>>
    THEN {tab}
    ELSE IF \/ Head(lote).erro
            \/ UsuariosComNome(Head(lote).condutor) = {}
         THEN {tab}
         ELSE UNION {ProcessarLinhas_Interrompe(t, Tail(lote)) :
                        t \in ProcessarLinha(tab, Head(lote))}

\* for _, row in df.iterrows(): the ledgers the whole loop can leave.
RECURSIVE ProcessarLinhas(_, _)
ProcessarLinhas(tab, lote) ==
    IF lote = <<>>
    THEN {tab}
    ELSE UNION {ProcessarLinhas(t, Tail(lote)) :
                   t \in ProcessarLinha(tab, Head(lote))}

\* formato: the extension of the uploaded file name ("" when no file).
importar_multas(formato, lote) ==
    IF formato \notin {"xlsx", "xls", "csv"}
    THEN /\ flash' = "arquivo_nao_suportado"
         /\ UNCHANGED <<db, hoje>>
    ELSE /\ multas' \in ProcessarLinhas(multas, lote)
         /\ flash' = "planilha_importada"
         /\ UNCHANGED <<empresas, usuarios, veiculos, utilizacoes, controles,
                        appusers, hoje>>

(***************************************************************************)
(* Registries and the rows that depend on them.                            *)
(***************************************************************************)
NextCadastros ==
    \/ \E nome \in {"acme", ""} :
          /\ nome # "" => NovoId(empresas) <= MaxEmpresas
          /\ cadastro_empresa(nome)
    \/ /\ NovoId(usuarios) <= MaxUsuarios
       /\ cadastro_usuario("ana", "vendas")
    \/ /\ NovoId(veiculos) <= MaxVeiculosCad
       /\ 1 \in DOMAIN empresas
       /\ cadastro_veiculo(PlacaDe(NovoId(veiculos)), 1, 1)
    \/ /\ NovoId(utilizacoes) <= MaxUtilizacoesCad
       /\ \E c \in DOMAIN usuarios, v \in DOMAIN veiculos :
             cadastro_utilizacao(c, v, veiculos[v].empresa_id, 1, 0)
    \/ /\ NovoId(multas) <= MaxMultas
       /\ \E v \in 1..MaxVeiculosCad, c \in 1..MaxUsuarios,
             e \in 1..MaxEmpresas :
             cadastro_multa(PlacaDe(v), c, e, Janeiro, 1, "x", TRUE)
    \/ \E e \in 1..MaxEmpresas : excluir_empresa(e)
    \/ \E c \in 1..MaxUsuarios : excluir_usuario(c)
    \/ \E v \in 1..MaxVeiculosCad : excluir_veiculo(v)
    \/ \E u \in 1..MaxUtilizacoesCad : excluir_utilizacao(u)
    \/ \E m \in 1..MaxMultas : excluir_multa(m)

SpecCadastros == Init /\ [][NextCadastros]_vars

\* A Utilizacao or Multa row references the row with this key.
RefEmpresa(e) ==
    \/ \E u \in DOMAIN utilizacoes : utilizacoes[u].empresa_id = e
    \/ \E m \in DOMAIN multas : multas[m].empresa_id = e
RefUsuario(c) ==
    \/ \E u \in DOMAIN utilizacoes : utilizacoes[u].usuario_id = c
    \/ \E m \in DOMAIN multas : multas[m].usuario_id = c
RefVeiculo(v) ==
    \/ \E u \in DOMAIN utilizacoes : utilizacoes[u].veiculo_id = v
    \/ \E m \in DOMAIN multas : multas[m].veiculo_id = v

\* C7: a delete request for a Company, Driver or Vehicle that a Utilization
\* or Fine row references is rejected and changes no row; and a row that one
\* of these deletes removes is referenced by no Utilization or Fine afterwards.
C7_ExclusaoComDependentesRejeitada ==
    [][/\ \A e \in DOMAIN empresas :
            /\ (RefEmpresa(e) /\ excluir_empresa(e)) => UNCHANGED db
            /\ (e \notin DOMAIN empresas' /\ excluir_empresa(e))
                  => ~RefEmpresa(e)'
       /\ \A c \in DOMAIN usuarios :
            /\ (RefUsuario(c) /\ excluir_usuario(c)) => UNCHANGED db
            /\ (c \notin DOMAIN usuarios' /\ excluir_usuario(c))
                  => ~RefUsuario(c)'
       /\ \A v \in DOMAIN veiculos :
            /\ (RefVeiculo(v) /\ excluir_veiculo(v)) => UNCHANGED db
            /\ (v \notin DOMAIN veiculos' /\ excluir_veiculo(v))
                  => ~RefVeiculo(v)']_vars

\* C7 witness: the deletion of a vehicle has just been refused while a fine,
\* and no utilization, references a vehicle.
C7_Witness ==
    /\ flash = "veiculo_vinculado"
    /\ DOMAIN utilizacoes = {}
    /\ \E m \in DOMAIN multas : multas[m].veiculo_id \in DOMAIN veiculos

\* C8 as stated: a delete request for an existing Company, Driver or Vehicle
\* that no Utilization and no Fine references removes the row.
C8_ExclusaoSemUtilizacaoNemMulta ==
    [][/\ \A e \in DOMAIN empresas :
            (~RefEmpresa(e) /\ excluir_empresa(e)) => e \notin DOMAIN empresas'
       /\ \A c \in DOMAIN usuarios :
            (~RefUsuario(c) /\ excluir_usuario(c)) => c \notin DOMAIN usuarios'
       /\ \A v \in DOMAIN veiculos :
            (~RefVeiculo(v) /\ excluir_veiculo(v)) => v \notin DOMAIN veiculos'
      ]_vars

\* C8 amended: a delete request for an existing Company, Driver or Vehicle
\* that no Utilization and no Fine references, and in the case of a Company
\* no Vehicle either, removes exactly that row.
C8_ExclusaoSemDependentes ==
    [][/\ \A e \in DOMAIN empresas :
            (/\ ~RefEmpresa(e)
             /\ \A v \in DOMAIN veiculos : veiculos[v].empresa_id # e
             /\ excluir_empresa(e))
                => empresas' = [x \in DOMAIN empresas \ {e} |-> empresas[x]]
       /\ \A c \in DOMAIN usuarios :
            (~RefUsuario(c) /\ excluir_usuario(c))
                => usuarios' = [x \in DOMAIN usuarios \ {c} |-> usuarios[x]]
       /\ \A v \in DOMAIN veiculos :
            (~RefVeiculo(v) /\ excluir_veiculo(v))
                => veiculos' = [x \in DOMAIN veiculos \ {v} |-> veiculos[x]]
      ]_vars

\* C8 witness: a driver that nothing references has just been deleted while
\* a company and its vehicle exist.
C8_Witness ==
    /\ flash = "usuario_excluido"
    /\ DOMAIN usuarios = {}
    /\ \E v \in DOMAIN veiculos : veiculos[v].empresa_id \in DOMAIN empresas

(***************************************************************************)
(* AppUser: the login accounts and their permissions.                      *)
(***************************************************************************)
\* current_user.is_authenticated for the account quem: load_user finds the
\* row, and UserMixin.is_authenticated is the account's is_active.
is_authenticated(quem) ==
    quem \in DOMAIN appusers /\ appusers[quem].active

\* The require_admin wrapper that also lets in a requester with
\* can_manage_users.
require_admin_OuGerente(quem) ==
    IF ~is_authenticated(quem) THEN "unauthorized"
    ELSE IF ~appusers[quem].is_admin /\ ~appusers[quem].can_manage_users
    THEN "acesso_restrito"
    ELSE "ok"

\* The outcome of the require_admin wrapper for the requester quem.
require_admin(quem) ==
    IF ~is_authenticated(quem) THEN "unauthorized"
    ELSE IF ~appusers[quem].is_admin THEN "acesso_restrito"
    ELSE "ok"

\* AppUser.query.filter_by(is_admin=True, active=True).count()
admins ==
    Cardinality({u \in DOMAIN appusers :
                    appusers[u].is_admin /\ appusers[u].active})

config_usuarios(quem, username, is_admin, can_edit, can_delete, can_manage_users) ==
    /\ IF require_admin(quem) # "ok"
       THEN /\ flash' = require_admin(quem)
            /\ UNCHANGED <<db, hoje>>
       ELSE IF username = ""
       THEN /\ flash' = "informe_usuario_e_senha"
            /\ UNCHANGED <<db, hoje>>
       ELSE IF \E u \in DOMAIN appusers : appusers[u].username = username
       THEN /\ flash' = "login_existente"
            /\ UNCHANGED <<db, hoje>>
       ELSE /\ appusers' = Inserir(appusers,
                    [username |-> username, is_admin |-> is_admin,
                     can_edit |-> can_edit, can_delete |-> can_delete,
                     can_manage_users |-> can_manage_users, active |-> TRUE])
            /\ flash' = "usuario_sistema_criado"
            /\ UNCHANGED <<empresas, usuarios, veiculos, utilizacoes,
                           controles, multas, hoje>>

\* atualizar_permissoes whose guard counts every account with is_admin set,
\* active or not.
atualizar_permissoes_ContaInativos(quem, user_id, is_admin, can_edit, can_delete, can_manage_users, active) ==
    IF require_admin(quem) # "ok"
    THEN /\ flash' = require_admin(quem)
         /\ UNCHANGED <<db, hoje>>
    ELSE IF user_id \notin DOMAIN appusers
    THEN /\ flash' = "usuario_sistema_nao_encontrado"
         /\ UNCHANGED <<db, hoje>>
    ELSE IF /\ appusers[user_id].is_admin
            /\ ~is_admin
            /\ Cardinality({u \in DOMAIN appusers : appusers[u].is_admin}) <= 1
    THEN /\ flash' = "ultimo_administrador"
         /\ UNCHANGED <<db, hoje>>
    ELSE /\ appusers' =
               [appusers EXCEPT
                   ![user_id].is_admin = is_admin,
                   ![user_id].can_edit = can_edit,
                   ![user_id].can_delete = can_delete,
                   ![user_id].can_manage_users = can_manage_users,
                   ![user_id].active = active]
         /\ flash' = "permissoes_atualizadas"
         /\ UNCHANGED <<empresas, usuarios, veiculos, utilizacoes, controles,
                        multas, hoje>>

atualizar_permissoes(quem, user_id, is_admin, can_edit, can_delete, can_manage_users, active) ==
    IF require_admin(quem) # "ok"
    THEN /\ flash' = require_admin(quem)
         /\ UNCHANGED <<db, hoje>>
    ELSE IF user_id \notin DOMAIN appusers
    THEN /\ flash' = "usuario_sistema_nao_encontrado"
         /\ UNCHANGED <<db, hoje>>
    ELSE IF appusers[user_id].is_admin /\ ~is_admin /\ admins <= 1
    THEN /\ flash' = "ultimo_administrador"
         /\ UNCHANGED <<db, hoje>>
    ELSE /\ appusers' =
               [appusers EXCEPT
                   ![user_id].is_admin = is_admin,
                   ![user_id].can_edit = can_edit,
                   ![user_id].can_delete = can_delete,
                   ![user_id].can_manage_users = can_manage_users,
                   ![user_id].active = active]
         /\ flash' = "permissoes_atualizadas"
         /\ UNCHANGED <<empresas, usuarios, veiculos, utilizacoes, controles,
                        multas, hoje>>

excluir_usuario_sistema(quem, user_id) ==
    IF require_admin(quem) # "ok"
    THEN /\ flash' = require_admin(quem)
         /\ UNCHANGED <<db, hoje>>
    ELSE IF user_id \notin DOMAIN appusers
    THEN /\ flash' = "usuario_sistema_nao_encontrado"
         /\ UNCHANGED <<db, hoje>>
    ELSE IF appusers[user_id].is_admin /\ admins <= 1
    THEN /\ flash' = "ultimo_administrador"
         /\ UNCHANGED <<db, hoje>>
    ELSE /\ appusers' = Remover(appusers, user_id)
         /\ flash' = "usuario_sistema_excluido"
         /\ UNCHANGED <<empresas, usuarios, veiculos, utilizacoes, controles,
                        multas, hoje>>

AppUserIds == 1..MaxAppUsers
Logins == {"bia", "caio"}

NextUsuarios ==
    \/ /\ NovoId(appusers) <= MaxAppUsers
       /\ \E q \in AppUserIds, n \in Logins, a \in BOOLEAN :
             config_usuarios(q, n, a, TRUE, TRUE, TRUE)
    \/ \E q \in AppUserIds, u \in AppUserIds, a \in BOOLEAN, act \in BOOLEAN :
           atualizar_permissoes(q, u, a, TRUE, TRUE, TRUE, act)
    \/ \E q \in AppUserIds, u \in AppUserIds : excluir_usuario_sistema(q, u)

SpecUsuarios == Init /\ [][NextUsuarios]_vars

\* The accounts, other than u, that are administrators and active.
OutrosAdminsAtivos(u) ==
    {w \in DOMAIN appusers \ {u} : appusers[w].is_admin /\ appusers[w].active}

\* The requester q passes the checks of require_admin.
C9_Admin(q) ==
    q \in DOMAIN appusers /\ appusers[q].active /\ appusers[q].is_admin

\* C9, first half: a permissions update that clears is_admin on an account
\* that is the sole remaining admin is rejected and leaves the account (and
\* every other row) as it was.
C9_UltimoAdmin(q, u, act) ==
    (/\ appusers[u].is_admin
     /\ OutrosAdminsAtivos(u) = {}
     /\ atualizar_permissoes(q, u, FALSE, TRUE, TRUE, TRUE, act))
        => UNCHANGED db

\* C9 as stated: the first half, and the same update when two or more
\* accounts have is_admin set succeeds and clears the flag.
C9_RemoverAdminDoisAdmins ==
    [][\A q \in DOMAIN appusers, u \in DOMAIN appusers, act \in BOOLEAN :
          /\ C9_UltimoAdmin(q, u, act)
          /\ (/\ C9_Admin(q)
              /\ appusers[u].is_admin
              /\ Cardinality({w \in DOMAIN appusers : appusers[w].is_admin}) >= 2
              /\ atualizar_permissoes(q, u, FALSE, TRUE, TRUE, TRUE, act))
                 => ~appusers'[u].is_admin]_vars

\* C9 amended: the first half, and the same update when two or more active
\* admin accounts exist succeeds and clears the flag.
C9_RemoverAdminDoisAdminsAtivos ==
    [][\A q \in DOMAIN appusers, u \in DOMAIN appusers, act \in BOOLEAN :
          /\ C9_UltimoAdmin(q, u, act)
          /\ (/\ C9_Admin(q)
              /\ appusers[u].is_admin
              /\ admins >= 2
              /\ atualizar_permissoes(q, u, FALSE, TRUE, TRUE, TRUE, act))
                 => /\ ~appusers'[u].is_admin
                    /\ appusers'[u].active = act
                    /\ \A w \in DOMAIN appusers \ {u} :
                          appusers'[w] = appusers[w]]_vars

\* C9 witness: the removal of the last administrator has just been refused
\* while a second account, not an administrator, exists.
C9_Witness ==
    /\ flash = "ultimo_administrador"
    /\ Cardinality(DOMAIN appusers) >= 2
    /\ Cardinality({u \in DOMAIN appusers : appusers[u].is_admin}) = 1

\* C10: at least one account is an administrator and active.
C10_AdminAtivoExiste ==
    \E u \in DOMAIN appusers : appusers[u].is_admin /\ appusers[u].active

(***************************************************************************)
(* Batch import of fines into a ledger with one company, one driver and    *)
(* one vehicle.                                                            *)
(***************************************************************************)
\* A row whose driver, plate and company resolve (ignoring letter case).
LinhaBase ==
    [condutor |-> "ANA", placa |-> <<"a">>, empresa |-> "Acme",
     centro_custo |-> "cc", mes_referencia |-> <<Janeiro, 1>>,
     data_infracao |-> 1, infracao |-> "x", erro |-> FALSE]

Linhas ==
    {LinhaBase,
     [LinhaBase EXCEPT !.infracao = "y"],
     [LinhaBase EXCEPT !.placa = <<"A">>],
     [LinhaBase EXCEPT !.erro = TRUE],
     [LinhaBase EXCEPT !.condutor = "Bia"]}

Lotes == UNION {[1..n -> Linhas] : n \in 0..MaxLinhas}

NextImportacao ==
    \/ /\ DOMAIN empresas = {}
       /\ cadastro_empresa("acme")
    \/ /\ DOMAIN usuarios = {}
       /\ cadastro_usuario("ana", "vendas")
    \/ /\ DOMAIN veiculos = {}
       /\ cadastro_veiculo(PlacaDe(1), 1, 1)
    \/ \E formato \in {"xlsx", "pdf"}, lote \in Lotes :
          /\ NovoId(multas) + Len(lote) - 1 <= MaxMultasLote
          /\ importar_multas(formato, lote)
    \/ \E m \in 1..MaxMultasLote : excluir_multa(m)

SpecImportacao == Init /\ [][NextImportacao]_vars

\* The (plate, infraction date, infraction text) triple of a fine or a row.
C11_Triplo(r) == <<r.placa, r.data_infracao, r.infracao>>

\* The driver, the vehicle and the company of the row all resolve.
C11_Resolve(row) ==
    /\ \E c \in DOMAIN usuarios :
          LowerNome(usuarios[c].nome) = LowerNome(row.condutor)
    /\ \E v \in DOMAIN veiculos : Upper(veiculos[v].placa) = Upper(row.placa)
    /\ \E e \in DOMAIN empresas :
          LowerNome(empresas[e].nome) = LowerNome(row.empresa)

\* C11: a batch import never inserts a fine whose (plate, date, text) triple
\* equals that of a fine already in the ledger or of a fine inserted earlier
\* in the batch; a batch of two rows with one triple that is not in the
\* ledger, both resolving, inserts exactly one fine.
C11_ImportacaoSemDuplicata ==
    [][\A lote \in Lotes :
          importar_multas("xlsx", lote) =>
             LET novas == DOMAIN multas' \ DOMAIN multas
             IN /\ \A n \in novas : \A m \in DOMAIN multas' \ {n} :
                      C11_Triplo(multas'[m]) # C11_Triplo(multas'[n])
                /\ (/\ Len(lote) = 2
                    /\ C11_Triplo(lote[1]) = C11_Triplo(lote[2])
                    /\ \A i \in 1..2 : ~lote[i].erro /\ C11_Resolve(lote[i])
                    /\ \A m \in DOMAIN multas :
                          C11_Triplo(multas[m]) # C11_Triplo(lote[1]))
                      => Cardinality(novas) = 1]_vars

\* C11 witness: after an import the ledger holds two fines of one vehicle
\* whose triples differ, and every triple of the ledger occurs once.
C11_Witness ==
    /\ flash = "planilha_importada"
    /\ Cardinality(DOMAIN multas) = 2
    /\ \A m, n \in DOMAIN multas :
          /\ multas[m].veiculo_id = multas[n].veiculo_id
          /\ m # n => C11_Triplo(multas[m]) # C11_Triplo(multas[n])

(***************************************************************************)
(* Odometer readings of the utilizations of one vehicle: delivery, one     *)
(* monthly checkpoint, return and edit, with any reading in each field.    *)
(***************************************************************************)
\* Monthly allowances a vehicle is registered with.
Franquias == {0, MaxKm}

NextKm ==
    \/ /\ DOMAIN veiculos = {}
       /\ \E f \in Franquias : cadastro_veiculo(PlacaDe(1), 1, f)
    \/ /\ NovoId(utilizacoes) <= MaxUtilizacoesCad
       /\ 1 \in DOMAIN veiculos
       /\ \E k \in Kms : cadastro_utilizacao(1, 1, 1, 1, k)
    \/ /\ DOMAIN controles = {}
       /\ \E u \in DOMAIN utilizacoes, ki \in Kms, kf \in Kms :
             controle_km_mensal(u, 1, ki, kf)
    \/ \E u \in DOMAIN utilizacoes, d \in {hoje, INVALIDO},
          k \in Kms \cup {INVALIDO} : devolucao(u, d, k)
    \/ \E u \in DOMAIN utilizacoes, k \in Kms :
          editar_utilizacao(u, 1, 1, 1, 1, k)

SpecKm == Init /\ [][NextKm]_vars

\* C12: in every reachable state, every utilization has data_devolucao and
\* km_devolucao either both null or both set.
C12_DevolucaoAmbosOuNenhum ==
    \A u \in DOMAIN utilizacoes :
        (utilizacoes[u].data_devolucao = NULL)
            <=> (utilizacoes[u].km_devolucao = NULL)

\* C12 witness: a return has just been recorded, so a utilization has both
\* fields set.
C12_Witness ==
    /\ flash = "devolucao_registrada"
    /\ \E u \in DOMAIN utilizacoes :
          /\ utilizacoes[u].data_devolucao # NULL
          /\ utilizacoes[u].km_devolucao # NULL

\* C13: in every state reachable by create, add-checkpoint, record-return
\* and edit-utilization requests, every returned utilization has
\* km_devolucao >= km_entrega.
C13_KmDevolucaoMaiorIgualEntrega ==
    \A u \in DOMAIN utilizacoes :
        utilizacoes[u].km_devolucao # NULL
            => utilizacoes[u].km_devolucao >= utilizacoes[u].km_entrega

\* C14: every stored checkpoint has km_final_mes >= km_inicial_mes.
C14_KmFinalMaiorIgualInicial ==
    \A c \in DOMAIN controles :
        controles[c].km_final_mes >= controles[c].km_inicial_mes

\* The allowance of the vehicle of utilization u.
C15_Franquia(u) == veiculos[utilizacoes[u].veiculo_id].franquia_km

\* max(0, x)
C15_NaoNegativo(x) == IF x > 0 THEN x ELSE 0

\* C15: km_utilizado is km_devolucao - km_entrega when the return odometer is
\* set and 0 otherwise; excedente is max(0, km_utilizado - franquia_km of the
\* vehicle) when returned and 0 otherwise; excedente_mes of a checkpoint is
\* max(0, (km_final_mes - km_inicial_mes) - franquia_km of the same vehicle);
\* neither overage is negative.
C15_UtilizadoEExcedente ==
    /\ \A u \in DOMAIN utilizacoes :
          LET r == utilizacoes[u]
          IN /\ km_utilizado(u) =
                   IF r.km_devolucao # NULL
                   THEN r.km_devolucao - r.km_entrega
                   ELSE 0
             /\ excedente(u) =
                   IF r.km_devolucao # NULL
                   THEN C15_NaoNegativo(
                            (r.km_devolucao - r.km_entrega) - C15_Franquia(u))
                   ELSE 0
             /\ excedente(u) >= 0
    /\ \A c \in DOMAIN controles :
          LET k == controles[c]
          IN /\ excedente_mes(c) =
                   C15_NaoNegativo((k.km_final_mes - k.km_inicial_mes)
                                       - C15_Franquia(k.utilizacao_id))
             /\ excedente_mes(c) >= 0

\* C15 witness: a returned utilization and a checkpoint both stayed below
\* the allowance of the vehicle, so both overages are cut to 0.
C15_Witness ==
    /\ \E u \in DOMAIN utilizacoes :
          /\ utilizacoes[u].km_devolucao # NULL
          /\ km_utilizado(u) - C15_Franquia(u) < 0
          /\ excedente(u) = 0
    /\ \E c \in DOMAIN controles :
          /\ km_utilizado_mes(c) - C15_Franquia(controles[c].utilizacao_id) < 0
          /\ excedente_mes(c) = 0

(***************************************************************************)
(* Plates: vehicles registered and deleted under plates typed in either    *)
(* letter case, and fines registered one at a time against them.           *)
(***************************************************************************)
Placas == {<<"a">>, <<"A">>, <<"b">>}

NextPlacas ==
    \/ /\ DOMAIN empresas = {}
       /\ cadastro_empresa("acme")
    \/ /\ DOMAIN usuarios = {}
       /\ \E setor \in {"vendas", "ti"} : cadastro_usuario("ana", setor)
    \/ /\ NovoId(veiculos) <= MaxVeiculos
       /\ \E p \in Placas : cadastro_veiculo(p, 1, 1)
    \/ \E v \in 1..MaxVeiculos : excluir_veiculo(v)
    \/ /\ NovoId(multas) <= MaxMultas
       /\ \E p \in Placas, c \in 1..2, e \in 1..2, valido \in BOOLEAN :
             cadastro_multa(p, c, e, Janeiro, 1, "x", valido)
    \/ \E m \in 1..MaxMultas : excluir_multa(m)

SpecPlacas == Init /\ [][NextPlacas]_vars

\* Two plates are equal ignoring letter case.
C16_IgualSemCaixa(p, q) == Upper(p) = Upper(q)

\* C16: registering a vehicle whose plate equals an existing vehicle's plate
\* ignoring letter case is rejected with no vehicle added, and after every
\* registration or deletion no two vehicles have plates equal ignoring case.
C16_PlacaUnicaSemCaixa ==
    [][/\ \A p \in Placas :
            (/\ \E v \in DOMAIN veiculos :
                   C16_IgualSemCaixa(veiculos[v].placa, p)
             /\ cadastro_veiculo(p, 1, 1))
                => UNCHANGED veiculos
       /\ \A v, w \in DOMAIN veiculos' :
            v # w => ~C16_IgualSemCaixa(veiculos'[v].placa, veiculos'[w].placa)
      ]_vars

\* C16 witness: a registration has just been refused while a vehicle exists,
\* and the plates on file are pairwise different when case is ignored.
C16_Witness ==
    /\ flash = "placa_existente"
    /\ DOMAIN veiculos # {}
    /\ \A v, w \in DOMAIN veiculos :
          v # w => ~C16_IgualSemCaixa(veiculos[v].placa, veiculos[w].placa)

\* C18: single-row fine registration inserts a fine only when the plate
\* matches an existing vehicle ignoring case and the driver and the company
\* exist; the fine references that vehicle, driver and company and has
\* centro_custo equal to the driver's setor; when one of the three is missing
\* no fine is inserted.
C18_MultaSoComReferencias ==
    [][\A p \in Placas, c \in 1..2, e \in 1..2, valido \in BOOLEAN :
          cadastro_multa(p, c, e, Janeiro, 1, "x", valido) =>
             LET novas == DOMAIN multas' \ DOMAIN multas
                 vs == {v \in DOMAIN veiculos :
                           C16_IgualSemCaixa(veiculos[v].placa, p)}
                 existem == /\ vs # {}
                            /\ c \in DOMAIN usuarios
                            /\ e \in DOMAIN empresas
             IN /\ ~existem => multas' = multas
                /\ \A m \in DOMAIN multas : multas'[m] = multas[m]
                /\ \A n \in novas :
                      /\ existem
                      /\ novas = {n}
                      /\ multas'[n].veiculo_id \in vs
                      /\ multas'[n].usuario_id = c
                      /\ multas'[n].empresa_id = e
                      /\ multas'[n].centro_custo = usuarios[c].setor]_vars

\* C18 witness: a fine has just been registered under a plate typed in lower
\* case for a vehicle stored in upper case, with the driver's setor as its
\* centro_custo.
C18_Witness ==
    /\ flash = "multa_registrada"
    /\ \E m \in DOMAIN multas :
          /\ multas[m].veiculo_id \in DOMAIN veiculos
          /\ multas[m].placa # veiculos[multas[m].veiculo_id].placa
          /\ multas[m].usuario_id \in DOMAIN usuarios
          /\ multas[m].centro_custo = usuarios[multas[m].usuario_id].setor

(***************************************************************************)
(* Checkpoints: one vehicle, one utilization with any delivery reading,    *)
(* and checkpoints added in any order of labels and deleted.               *)
(***************************************************************************)
\* The odometer readings submitted with a checkpoint.
Leituras == {0, MaxKm}

NextControle ==
    \/ /\ DOMAIN veiculos = {}
       /\ cadastro_veiculo(PlacaDe(1), 1, 1)
    \/ /\ DOMAIN utilizacoes = {}
       /\ 1 \in DOMAIN veiculos
       /\ \E k \in Kms : cadastro_utilizacao(1, 1, 1, 1, k)
    \/ /\ NovoId(controles) <= MaxControles
       /\ \E u \in DOMAIN utilizacoes, m \in Meses, ki \in Leituras, kf \in Leituras :
             controle_km_mensal(u, m, ki, kf)
    \/ \E c \in 1..MaxControles : excluir_controle_km(c)

SpecControle == Init /\ [][NextControle]_vars

\* The checkpoints of utilization u whose label is the greatest.
C17_MaiorRotulo(u) ==
    LET regs == {c \in DOMAIN controles : controles[c].utilizacao_id = u}
    IN {c \in regs :
           controles[c].mes_ano = Max({controles[d].mes_ano : d \in regs})}

\* The start readings the claim allows for utilization u.
C17_Esperado(u) ==
    IF \E c \in DOMAIN controles : controles[c].utilizacao_id = u
    THEN {controles[c].km_final_mes : c \in C17_MaiorRotulo(u)}
    ELSE {utilizacoes[u].km_entrega}

\* C17: for every utilization the suggested start reading is km_final_mes of
\* a checkpoint of it with the greatest mes_ano label, whatever the creation
\* order, or km_entrega when it has no checkpoint; and the checkpoint a
\* request adds stores the submitted start reading.
C17_SugestaoPorRotulo ==
    [][/\ \A u \in DOMAIN utilizacoes' :
            km_inicial_proximo(u)' = C17_Esperado(u)'
       /\ \A u \in DOMAIN utilizacoes, m \in Meses, ki \in Leituras, kf \in Leituras :
            controle_km_mensal(u, m, ki, kf) =>
               /\ DOMAIN controles' = DOMAIN controles \cup {NovoId(controles)}
               /\ controles'[NovoId(controles)].km_inicial_mes = ki
      ]_vars

\* C17 witness: a checkpoint has just been added whose label is below that of
\* an older checkpoint with another end reading, and whose stored start
\* reading is not the end reading of the older one.
C17_Witness ==
    /\ flash = "km_mensal_salvo"
    /\ \E c, d \in DOMAIN controles :
          /\ c < d
          /\ controles[c].utilizacao_id = controles[d].utilizacao_id
          /\ controles[d].mes_ano < controles[c].mes_ano
          /\ controles[d].km_final_mes # controles[c].km_final_mes
          /\ controles[d].km_inicial_mes # controles[c].km_final_mes
          /\ km_inicial_proximo(controles[c].utilizacao_id)
                = {controles[c].km_final_mes}

(***************************************************************************)
(* Forms: requests whose date, odometer or month fields are good, missing  *)
(* or unparseable.                                                         *)
(***************************************************************************)
DatasForm == {1, INVALIDO}
KmsForm == {0, INVALIDO}
MesesForm == {Janeiro, Foo, AUSENTE}

NextFormularios ==
    \/ /\ DOMAIN empresas = {}
       /\ cadastro_empresa("acme")
    \/ /\ DOMAIN usuarios = {}
       /\ cadastro_usuario("ana", "vendas")
    \/ /\ NovoId(veiculos) <= MaxVeiculos
       /\ cadastro_veiculo(PlacaDe(NovoId(veiculos)), 1, 1)
    \/ /\ NovoId(utilizacoes) <= MaxUtilizacoesCad
       /\ \E v \in DOMAIN veiculos, d \in DatasForm, k \in KmsForm :
             cadastro_utilizacao(1, v, 1, d, k)
    \/ \E u \in DOMAIN utilizacoes, v \in DOMAIN veiculos,
          d \in DatasForm, k \in KmsForm :
             editar_utilizacao(u, 1, v, 1, d, k)
    \/ \E u \in DOMAIN utilizacoes, d \in {hoje, INVALIDO}, k \in KmsForm :
             devolucao(u, d, k)
    \/ /\ NovoId(multas) <= MaxMultas
       /\ \E v \in DOMAIN veiculos, mes \in MesesForm, d \in DatasForm,
             valido \in BOOLEAN :
             cadastro_multa(veiculos[v].placa, 1, 1, mes, d, "x", valido)

SpecFormularios == Init /\ [][NextFormularios]_vars

\* C19: a request with a missing or unparseable field leaves every table
\* unchanged: an edit or a return with an invalid date or odometer changes
\* nothing (the previous vehicle's disponivel flag included), and a fine
\* registration with an invalid month, date or other field inserts no fine.
C19_CampoInvalidoSemEfeito ==
    [][/\ \A u \in DOMAIN utilizacoes, v \in DOMAIN veiculos,
            d \in DatasForm, k \in KmsForm :
            (/\ d = INVALIDO \/ k = INVALIDO
             /\ editar_utilizacao(u, 1, v, 1, d, k)) => UNCHANGED db
       /\ \A u \in DOMAIN utilizacoes, d \in {hoje, INVALIDO}, k \in KmsForm :
            (/\ d = INVALIDO \/ k = INVALIDO
             /\ devolucao(u, d, k)) => UNCHANGED db
       /\ \A v \in DOMAIN veiculos, mes \in MesesForm, d \in DatasForm,
            valido \in BOOLEAN :
            (/\ \/ mes \notin {Janeiro}
                \/ d = INVALIDO
                \/ ~valido
             /\ cadastro_multa(veiculos[v].placa, 1, 1, mes, d, "x", valido))
                => UNCHANGED db
      ]_vars

(***************************************************************************)
(* Batch import: which rows of a batch become fines.                       *)
(***************************************************************************)
\* Row i of the batch processes without error and resolves its driver,
\* vehicle and company.
C20_Boa(lote, i) == ~lote[i].erro /\ C11_Resolve(lote[i])

\* The rows of the batch that are good and are no duplicate of a fine of the
\* ledger or of an earlier good row.
C20_Aceitas(lote) ==
    {i \in 1..Len(lote) :
        /\ C20_Boa(lote, i)
        /\ \A m \in DOMAIN multas :
              C11_Triplo(multas[m]) # C11_Triplo(lote[i])
        /\ \A j \in 1..(i - 1) :
              C20_Boa(lote, j) => C11_Triplo(lote[j]) # C11_Triplo(lote[i])}

\* C20: a batch import inserts exactly one fine for each row that processes
\* without error, resolves driver, vehicle and company and is no duplicate,
\* in the order of the rows and whatever the other rows contain; the fines
\* already in the ledger and the other tables are unchanged.
C20_LinhasIsoladas ==
    [][\A lote \in Lotes :
          importar_multas("xlsx", lote) =>
             LET aceitas == C20_Aceitas(lote)
                 base == NovoId(multas)
             IN /\ DOMAIN multas' = DOMAIN multas
                       \cup base..(base + Cardinality(aceitas) - 1)
                /\ \A m \in DOMAIN multas : multas'[m] = multas[m]
                /\ \A i \in aceitas :
                      LET f == multas'[base
                                  + Cardinality({j \in aceitas : j < i})]
                      IN /\ C11_Triplo(f) = C11_Triplo(lote[i])
                         /\ f.centro_custo = lote[i].centro_custo
                         /\ f.usuario_id \in DOMAIN usuarios
                         /\ LowerNome(usuarios[f.usuario_id].nome)
                               = LowerNome(lote[i].condutor)
                         /\ f.veiculo_id \in DOMAIN veiculos
                         /\ Upper(veiculos[f.veiculo_id].placa)
                               = Upper(lote[i].placa)
                         /\ f.empresa_id \in DOMAIN empresas
                         /\ LowerNome(empresas[f.empresa_id].nome)
                               = LowerNome(lote[i].empresa)
                /\ UNCHANGED <<empresas, usuarios, veiculos, utilizacoes,
                               controles, appusers>>]_vars

\* C20 witness: an import has just finished and the ledger holds the fines of
\* two rows, one with the plate typed in lower case and one in upper case.
C20_Witness ==
    /\ flash = "planilha_importada"
    /\ \E m, n \in DOMAIN multas :
          /\ multas[m].placa = <<"a">>
          /\ multas[n].placa = <<"A">>

relatorio_multas(data_inicio, data_fim, veiculo_id) ==
    IF data_inicio = NULL /\ data_fim = NULL /\ veiculo_id = NULL
    THEN {}
    ELSE {m \in DOMAIN multas :
            /\ data_inicio # NULL =>
                  /\ multas[m].data_infracao # NULL
                  /\ multas[m].data_infracao >= data_inicio
            /\ data_fim # NULL =>
                  /\ multas[m].data_infracao # NULL
                  /\ multas[m].data_infracao <= data_fim
            /\ (veiculo_id # NULL /\ veiculo_id # INVALIDO) =>
                  multas[m].veiculo_id = veiculo_id}

\* exportar_multas_excel: the fines written to the sheet.
exportar_multas_excel(data_inicio, data_fim, veiculo_id) ==
    {m \in DOMAIN multas :
        /\ data_inicio # NULL =>
              /\ multas[m].data_infracao # NULL
              /\ multas[m].data_infracao >= data_inicio
        /\ data_fim # NULL =>
              /\ multas[m].data_infracao # NULL
              /\ multas[m].data_infracao <= data_fim
        /\ (veiculo_id # NULL /\ veiculo_id # INVALIDO) =>
              multas[m].veiculo_id = veiculo_id}

DatasFiltro == Dias \cup {NULL}
VeiculosFiltro == 1..MaxVeiculos \cup {NULL, INVALIDO}

NextRelatorio ==
    \/ /\ DOMAIN empresas = {}
       /\ cadastro_empresa("acme")
    \/ /\ DOMAIN usuarios = {}
       /\ cadastro_usuario("ana", "vendas")
    \/ /\ NovoId(veiculos) <= MaxVeiculos
       /\ cadastro_veiculo(PlacaDe(NovoId(veiculos)), 1, 1)
    \/ /\ NovoId(multas) <= MaxMultasLote
       /\ \E v \in DOMAIN veiculos, d \in Dias :
             cadastro_multa(veiculos[v].placa, 1, 1, Janeiro, d, "x", TRUE)
    \/ \E m \in 1..MaxMultasLote : excluir_multa(m)

SpecRelatorio == Init /\ [][NextRelatorio]_vars

\* C22: for every filter (start date, end date, vehicle id), none given
\* included, the Excel export holds exactly the fines the report lists.
C22_ExportacaoIgualRelatorio ==
    \A di \in DatasFiltro, df \in DatasFiltro, v \in VeiculosFiltro :
        exportar_multas_excel(di, df, v) = relatorio_multas(di, df, v)

(***************************************************************************)
(* Mileage report.  A filter parameter is NULL when it is absent or empty  *)
(* and INVALIDO when it is not a number; the range labels are both given.  *)
(***************************************************************************)
\* db.session.get(Veiculo, veiculo_id_str) if ... .isdigit() else None
veiculo_selecionado(veiculo_id_str) ==
    IF veiculo_id_str \in DOMAIN veiculos THEN veiculo_id_str ELSE NULL

\* db.session.get(Usuario, usuario_id_str) if ... .isdigit() else None
usuario_selecionado(usuario_id_str) ==
    IF usuario_id_str \in DOMAIN usuarios THEN usuario_id_str ELSE NULL

\* ControleKm joined with Utilizacao and filtered by filtros_base.
filtros_base(inicio, fim, veiculo_id_str, usuario_id_str) ==
    {c \in DOMAIN controles :
        /\ controles[c].utilizacao_id \in DOMAIN utilizacoes
        /\ inicio <= controles[c].mes_ano
        /\ controles[c].mes_ano <= fim
        /\ veiculo_selecionado(veiculo_id_str) # NULL =>
              utilizacoes[controles[c].utilizacao_id].veiculo_id
                  = veiculo_selecionado(veiculo_id_str)
        /\ usuario_selecionado(usuario_id_str) # NULL =>
              utilizacoes[controles[c].utilizacao_id].usuario_id
                  = usuario_selecionado(usuario_id_str)}

\* km_total_rodado_periodo with the first and the last checkpoint taken by
\* creation instead of by label.
km_total_rodado_periodo_PorCriacao(inicio, fim, veiculo_id_str, usuario_id_str) ==
    LET regs == filtros_base(inicio, fim, veiculo_id_str, usuario_id_str)
    IN IF regs = {}
       THEN {0}
       ELSE {controles[u].km_final_mes - controles[p].km_inicial_mes :
                p \in {c \in regs : \A d \in regs : c <= d},
                u \in {c \in regs : \A d \in regs : d <= c}}

\* km_total_rodado_periodo: the values the report can show.  .first() on
\* checkpoints with the same label is in no defined order.
km_total_rodado_periodo(inicio, fim, veiculo_id_str, usuario_id_str) ==
    LET regs == filtros_base(inicio, fim, veiculo_id_str, usuario_id_str)
    IN IF regs = {}
       THEN {0}
       ELSE {controles[u].km_final_mes - controles[p].km_inicial_mes :
                p \in {c \in regs : \A d \in regs :
                          controles[c].mes_ano <= controles[d].mes_ano},
                u \in {c \in regs : \A d \in regs :
                          controles[d].mes_ano <= controles[c].mes_ano}}

\* func.sum(ControleKm.km_final_mes - ControleKm.km_inicial_mes)
RECURSIVE SomaKm(_)
SomaKm(regs) ==
    IF regs = {}
    THEN 0
    ELSE LET c == CHOOSE x \in regs : TRUE
         IN controles[c].km_final_mes - controles[c].km_inicial_mes
               + SomaKm(regs \ {c})

\* km_por_motorista: the pairs (driver name, sum), over the checkpoints
\* joined with Utilizacao and Usuario and grouped by Usuario.nome.
km_por_motorista(inicio, fim, veiculo_id_str, usuario_id_str) ==
    LET regs == {c \in filtros_base(inicio, fim, veiculo_id_str,
                                    usuario_id_str) :
                    utilizacoes[controles[c].utilizacao_id].usuario_id
                        \in DOMAIN usuarios}
        nome(c) ==
            usuarios[utilizacoes[controles[c].utilizacao_id].usuario_id].nome
    IN {<<n, SomaKm({c \in regs : nome(c) = n})>> :
           n \in {nome(c) : c \in regs}}

VeiculosKm == {NULL, INVALIDO, 1}
UsuariosKm == {NULL, 1}

NextRelatorioKm ==
    \/ /\ DOMAIN usuarios = {}
       /\ cadastro_usuario("ana", "vendas")
    \/ /\ DOMAIN veiculos = {}
       /\ cadastro_veiculo(PlacaDe(1), 1, 1)
    \/ /\ DOMAIN utilizacoes = {}
       /\ 1 \in DOMAIN veiculos
       /\ 1 \in DOMAIN usuarios
       /\ cadastro_utilizacao(1, 1, 1, 1, 0)
    \/ /\ NovoId(controles) <= MaxControles
       /\ \E u \in DOMAIN utilizacoes, m \in Meses, ki \in Leituras,
             kf \in Leituras :
             controle_km_mensal(u, m, ki, kf)
    \/ \E c \in 1..MaxControles : excluir_controle_km(c)

SpecRelatorioKm == Init /\ [][NextRelatorioKm]_vars

\* The drivers of the checkpoints regs.
C23_Motoristas(regs) ==
    {utilizacoes[controles[c].utilizacao_id].usuario_id : c \in regs}

\* The total in period equals the entry of the one driver in the breakdown.
C23_TotalIgualEntrada(inicio, fim, v, u) ==
    \A d \in C23_Motoristas(filtros_base(inicio, fim, v, u)) :
        \A t \in km_total_rodado_periodo(inicio, fim, v, u) :
            /\ d \in DOMAIN usuarios
            /\ km_por_motorista(inicio, fim, v, u) = {<<usuarios[d].nome, t>>}

\* The checkpoints regs have distinct labels and each starts at the end
\* reading of the one with the next lower label.
C23_Contiguos(regs) ==
    \A c, d \in regs :
        /\ c # d => controles[c].mes_ano # controles[d].mes_ano
        /\ (/\ controles[c].mes_ano < controles[d].mes_ano
            /\ \A e \in regs : ~(/\ controles[c].mes_ano < controles[e].mes_ano
                                 /\ controles[e].mes_ano < controles[d].mes_ano))
              => controles[d].km_inicial_mes = controles[c].km_final_mes

\* C23 as stated: with a label range given and the matching checkpoints all
\* of one driver, the total in period equals that driver's entry in the
\* per-driver breakdown.
C23_TotalIgualSomaUmMotorista ==
    \A inicio \in Meses, fim \in Meses, v \in VeiculosKm, u \in UsuariosKm :
        (/\ v # NULL \/ u # NULL
         /\ Cardinality(C23_Motoristas(filtros_base(inicio, fim, v, u))) = 1)
            => C23_TotalIgualEntrada(inicio, fim, v, u)

\* C23 amended: the equality holds when, in addition, the matching
\* checkpoints have distinct labels and are contiguous (each start reading is
\* the end reading of the previous label).
C23_TotalIgualSomaContiguos ==
    \A inicio \in Meses, fim \in Meses, v \in VeiculosKm, u \in UsuariosKm :
        (/\ v # NULL \/ u # NULL
         /\ Cardinality(C23_Motoristas(filtros_base(inicio, fim, v, u))) = 1
         /\ C23_Contiguos(filtros_base(inicio, fim, v, u)))
            => C23_TotalIgualEntrada(inicio, fim, v, u)

\* C23 witness: the range of all labels matches two contiguous checkpoints
\* of one driver, the later label created first, with a non-zero total.
C23_Witness ==
    LET regs == filtros_base(1, MaxMes, 1, 1)
    IN /\ Cardinality(regs) = 2
       /\ C23_Contiguos(regs)
       /\ \E c, d \in regs : c < d /\ controles[d].mes_ano < controles[c].mes_ano
       /\ 0 \notin km_total_rodado_periodo(1, MaxMes, 1, 1)

(***************************************************************************)
(* Permissions: the require_perm wrapper around the business routes, with  *)
(* accounts of every combination of is_admin, can_edit and can_delete.     *)
(***************************************************************************)
\* The require_perm wrapper that lets every authenticated requester in.
require_perm_QualquerLogin(quem, attr) ==
    IF ~is_authenticated(quem) THEN "unauthorized" ELSE "ok"

\* The outcome of the require_perm(attr) wrapper for the requester quem.
require_perm(quem, attr) ==
    IF ~is_authenticated(quem) THEN "unauthorized"
    ELSE IF appusers[quem].is_admin \/ appusers[quem][attr] THEN "ok"
    ELSE "sem_permissao"

\* A route decorated with require_perm(attr): the handler f runs when the
\* wrapper lets the requester in, else the request is redirected.
wrapper(quem, attr, f) ==
    IF require_perm(quem, attr) = "ok"
    THEN f
    ELSE /\ flash' = require_perm(quem, attr)
         /\ UNCHANGED <<db, hoje>>

NextPermissoes ==
    \/ /\ NovoId(appusers) <= MaxAppUsers
       /\ \E n \in Logins, a \in BOOLEAN, ce \in BOOLEAN, cd \in BOOLEAN :
             config_usuarios(1, n, a, ce, cd, FALSE)
    \/ \E u \in DOMAIN appusers \ {1}, act \in BOOLEAN :
          atualizar_permissoes(1, u, appusers[u].is_admin,
                               appusers[u].can_edit, appusers[u].can_delete,
                               FALSE, act)
    \/ /\ DOMAIN veiculos = {}
       /\ \E q \in AppUserIds :
             wrapper(q, "can_edit", cadastro_veiculo(PlacaDe(1), 1, 1))
    \/ /\ DOMAIN utilizacoes = {}
       /\ 1 \in DOMAIN veiculos
       /\ \E q \in AppUserIds :
             wrapper(q, "can_edit", cadastro_utilizacao(1, 1, 1, 1, 0))
    \/ \E q \in AppUserIds :
          wrapper(q, "can_delete", excluir_utilizacao(1))
    \/ \E q \in AppUserIds :
          wrapper(q, "can_delete", excluir_veiculo(1))

SpecPermissoes == Init /\ [][NextPermissoes]_vars

\* The requester q is an active account that is an admin or has the flag.
C24_Permitido(q, attr) ==
    /\ q \in DOMAIN appusers
    /\ appusers[q].active
    /\ \/ appusers[q].is_admin
       \/ attr = "can_edit" /\ appusers[q].can_edit
       \/ attr = "can_delete" /\ appusers[q].can_delete

\* C24: a request to a route guarded by require_perm runs the handler only
\* when the requester is authenticated and is an admin or has the route's
\* flag (can_edit for create routes, can_delete for delete routes); any
\* other request leaves every table unchanged.
C24_SoComPermissao ==
    [][\A q \in AppUserIds :
          /\ wrapper(q, "can_edit", cadastro_veiculo(PlacaDe(1), 1, 1)) =>
                IF C24_Permitido(q, "can_edit")
                THEN cadastro_veiculo(PlacaDe(1), 1, 1)
                ELSE UNCHANGED db
          /\ wrapper(q, "can_edit", cadastro_utilizacao(1, 1, 1, 1, 0)) =>
                IF C24_Permitido(q, "can_edit")
                THEN cadastro_utilizacao(1, 1, 1, 1, 0)
                ELSE UNCHANGED db
          /\ wrapper(q, "can_delete", excluir_utilizacao(1)) =>
                IF C24_Permitido(q, "can_delete")
                THEN excluir_utilizacao(1)
                ELSE UNCHANGED db
          /\ wrapper(q, "can_delete", excluir_veiculo(1)) =>
                IF C24_Permitido(q, "can_delete")
                THEN excluir_veiculo(1)
                ELSE UNCHANGED db]_vars

\* C24 witness: a request has just been refused for lack of permission while
\* an account without can_delete and not admin exists next to a utilization.
C24_Witness ==
    /\ flash = "sem_permissao"
    /\ DOMAIN utilizacoes # {}
    /\ \E q \in DOMAIN appusers :
          /\ appusers[q].active
          /\ ~appusers[q].is_admin
          /\ appusers[q].can_edit
          /\ ~appusers[q].can_delete

meses_por_extenso ==
    <<<<"J", "a", "n", "e", "i", "r", "o">>,
      <<"F", "e", "v", "e", "r", "e", "i", "r", "o">>,
      <<"M", "a", "r", "ç", "o">>,
      <<"A", "b", "r", "i", "l">>,
      <<"M", "a", "i", "o">>,
      <<"J", "u", "n", "h", "o">>,
      <<"J", "u", "l", "h", "o">>,
      <<"A", "g", "o", "s", "t", "o">>,
      <<"S", "e", "t", "e", "m", "b", "r", "o">>,
      <<"O", "u", "t", "u", "b", "r", "o">>,
      <<"N", "o", "v", "e", "m", "b", "r", "o">>,
      <<"D", "e", "z", "e", "m", "b", "r", "o">>>>

\* mes_extenso of exportar_multas_excel: the name written for a stored
\* label; mes_referencia.split('-')[1] is the MM part of the label.
mes_extenso(mes_referencia) ==
    IF mes_referencia = NULL
    THEN <<"-">>
    ELSE IF (mes_referencia % 100) \in DOMAIN meses_por_extenso
    THEN meses_por_extenso[mes_referencia % 100]
    ELSE <<"-">>

\* The years a sheet names next to the month.
Anos == 1..MaxMes

\* Spellings of a month name: as in the form, upper case, lower case, first
\* letter lowered, and with whitespace around.
Grafias(nome) ==
    {nome, Upper(nome), Lower(nome),
     <<LowerChar(Head(nome))>> \o Upper(Tail(nome)),
     <<" ">> \o nome \o <<" ">>,
     <<"\t", " ">> \o Lower(nome),
     Upper(nome) \o <<"\n">>}

\* Texts that are no month name.
NaoMeses ==
    {Foo, <<>>, <<" ">>, <<"J", "a", "n", "e", "i", "r">>, <<"M", "a", "r", "c", "o">>, <<"J", "a", "n", " ", "e", "i", "r", "o">>,
     <<"J", "a", "n", "e", "i", "r", "o", "X">>}

NextMeses ==
    \/ /\ DOMAIN empresas = {}
       /\ cadastro_empresa("acme")
    \/ /\ DOMAIN usuarios = {}
       /\ \E setor \in {"vendas", "ti"} : cadastro_usuario("ana", setor)
    \/ /\ DOMAIN veiculos = {}
       /\ cadastro_veiculo(PlacaDe(1), 1, 1)
    \/ /\ DOMAIN multas = {}
       /\ \E i \in DOMAIN meses_por_extenso :
             \E g \in Grafias(meses_por_extenso[i]) \cup NaoMeses :
                cadastro_multa(PlacaDe(1), 1, 1, g, 1, "x", TRUE)
    \/ /\ DOMAIN multas = {}
       /\ \E i \in DOMAIN meses_por_extenso, ano \in Anos :
             \E g \in {meses_por_extenso[i], Upper(meses_por_extenso[i]), Foo} :
                importar_multas("xlsx",
                    <<[LinhaBase EXCEPT !.mes_referencia = <<g, ano>>]>>)
    \/ excluir_multa(1)

SpecMeses == Init /\ [][NextMeses]_vars

\* The spellings of month i have the label of month i in every year, and
\* the export writes that label as the name of month i; a text that is no
\* month name has no label.
C26_Puro ==
    /\ \A i \in 1..12 : \A g \in Grafias(meses_por_extenso[i]) :
          \A ano \in Anos :
             /\ get_mes_ano_para_db(g, ano) = ano * 100 + i
             /\ mes_extenso(get_mes_ano_para_db(g, ano)) = meses_por_extenso[i]
    /\ \A g \in NaoMeses : \A ano \in Anos :
          get_mes_ano_para_db(g, ano) = NULL

\* C26: for each of the 12 month names in any spelling of case and
\* surrounding whitespace, get_mes_ano_para_db gives the label year-MM of
\* the month's number, a fine registered under that spelling stores the label
\* of the current year, and the export's table gives the month's name back;
\* for a text that is no month name get_mes_ano_para_db gives None and the
\* fine is stored without label.
C26_NomeRotuloNome ==
    [][/\ C26_Puro
       /\ flash' = "multa_registrada" =>
             /\ \A i \in 1..12 : \A g \in Grafias(meses_por_extenso[i]) :
                   cadastro_multa(PlacaDe(1), 1, 1, g, 1, "x", TRUE) =>
                      /\ multas'[NovoId(multas)].mes_referencia
                            = AnoAtual * 100 + i
                      /\ mes_extenso(multas'[NovoId(multas)].mes_referencia)
                            = meses_por_extenso[i]
             /\ \A g \in NaoMeses :
                   cadastro_multa(PlacaDe(1), 1, 1, g, 1, "x", TRUE) =>
                      multas'[NovoId(multas)].mes_referencia = NULL
      ]_vars

\* C26 witness: a fine has just been registered whose stored label is that of
\* month 3 of the current year, which the export writes as the third name.
C26_Witness ==
    /\ flash = "multa_registrada"
    /\ \E m \in DOMAIN multas :
          /\ multas[m].mes_referencia = AnoAtual * 100 + 3
          /\ mes_extenso(multas[m].mes_referencia) = meses_por_extenso[3]

(***************************************************************************)
(* Checkpoints of deleted utilizations.                                    *)
(***************************************************************************)
NextOrfaos ==
    \/ /\ DOMAIN veiculos = {}
       /\ cadastro_veiculo(PlacaDe(1), 1, 1)
    \/ /\ NovoId(utilizacoes) <= MaxUtilizacoes
       /\ 1 \in DOMAIN veiculos
       /\ cadastro_utilizacao(1, 1, 1, 1, 0)
    \/ /\ NovoId(controles) <= MaxControles
       /\ \E u \in 1..MaxUtilizacoes, m \in Meses, kf \in Leituras :
             controle_km_mensal(u, m, 0, kf)
    \/ \E c \in 1..MaxControles : excluir_controle_km(c)
    \/ \E u \in 1..MaxUtilizacoes : excluir_utilizacao(u)

SpecOrfaos == Init /\ [][NextOrfaos]_vars

\* C27: every checkpoint references a utilization that exists.
C27_ControleComUtilizacao ==
    \A c \in DOMAIN controles : controles[c].utilizacao_id \in DOMAIN utilizacoes

====
